---------------------------- MODULE Spec2Model ----------------------------
(***************************************************************************)
(* A model of src/app.py: the poster-detection bot.                        *)
(*                                                                         *)
(* The process keeps three globals (SUBS, MONITORED_HANDLES, SEEN_POSTERS) *)
(* and three files.  The periodic job check_for_new_posters is a coroutine *)
(* on the event loop; it is suspended only at `await send_message` and at  *)
(* `await asyncio.sleep(1)`.  Everything between two awaits runs without   *)
(* interleaving (requests.get and time.sleep block the loop).  The command *)
(* handlers change state before their only await (the reply), so each is   *)
(* one step.  The read-only commands (list_handles, status) change nothing *)
(* and are left out.                                                       *)
(***************************************************************************)
EXTENDS Integers, Sequences, FiniteSets, Bags, TLC

(***************************************************************************)
(* Bounds of the model and constants of the program.                       *)
(***************************************************************************)
\* Runs of the periodic job that may be in progress at once.
MaxCycles == 1
\* Times the process is killed (and may be started again).
MaxCrashes == 1
\* Timeline items on a fetched page.
MaxItems == 2
\* len(NITTER_MIRRORS)
NumMirrors == 4
\* DEFAULT_CHAT_ID with the variable unset
DEFAULT_CHAT_ID == 0
\* {1,15} of the handle pattern
MaxHandleLen == 15

(***************************************************************************)
(* Text.  A string is a sequence of one-character strings, so that lower,  *)
(* lstrip and the handle pattern are computed on characters.               *)
(***************************************************************************)
LowerLetters == {"a", "b"}
UpperLetters == {"A", "B"}
Digits == {"1", "2", "3"}

\* str.lower() on one character of the alphabet in use
LowerChar(c) == CASE c = "A" -> "a" [] c = "B" -> "b" [] OTHER -> c

\* str.lower()
Lower(s) == [i \in 1..Len(s) |-> LowerChar(s[i])]

\* str.lstrip('@'): every leading '@' goes
RECURSIVE LStripAt(_)
LStripAt(s) == IF s # <<>> /\ Head(s) = "@" THEN LStripAt(Tail(s)) ELSE s

\* the character class [a-zA-Z0-9_]
IsWordChar(c) == c \in LowerLetters \cup UpperLetters \cup Digits \cup {"_"}

\* re.match(r"^[a-zA-Z0-9_]{1,15}$", handle)
MatchesHandle(s) ==
    /\ Len(s) >= 1
    /\ Len(s) <= MaxHandleLen
    /\ \A i \in 1..Len(s) : IsWordChar(s[i])

\* code point order of the characters in use ('1' < '@' < 'A' < '_' < 'a')
CharRank(c) ==
    CASE c = "-" -> 1 [] c = "1" -> 2 [] c = "2" -> 3 [] c = "3" -> 4
      [] c = "@" -> 5 [] c = "A" -> 6 [] c = "B" -> 7 [] c = "_" -> 8
      [] c = "a" -> 9 [] c = "b" -> 10 [] OTHER -> 11

\* Python's str < str
RECURSIVE StrLess(_, _)
StrLess(s, t) ==
    IF t = <<>> THEN FALSE
    ELSE IF s = <<>> THEN TRUE
    ELSE IF Head(s) = Head(t) THEN StrLess(Tail(s), Tail(t))
    ELSE CharRank(Head(s)) < CharRank(Head(t))

\* sorted(list(S)) for a set of strings
RECURSIVE SortedStrings(_)
SortedStrings(S) ==
    IF S = {} THEN <<>>
    ELSE LET m == CHOOSE x \in S : \A y \in S \ {x} : StrLess(x, y)
         IN  <<m>> \o SortedStrings(S \ {m})

\* sorted(S) for a set of integers
RECURSIVE SortedInts(_)
SortedInts(S) ==
    IF S = {} THEN <<>>
    ELSE LET m == CHOOSE x \in S : \A y \in S : x <= y
         IN  <<m>> \o SortedInts(S \ {m})

\* set(list)
Range(s) == {s[i] : i \in 1..Len(s)}

\* the sequences over S of length at most n
SeqsUpTo(S, n) == UNION {[1..k -> S] : k \in 0..n}

\* the strict prefixes of a sequence
StrictPrefixes(s) == {SubSeq(s, 1, k) : k \in 0..(Len(s) - 1)}

(***************************************************************************)
(* The inputs the model draws.                                             *)
(***************************************************************************)
\* chat ids that send /start
ChatIds == {1, 2, 3}
TwoChats == {1, 2}
\* arguments given to /add_handle and /remove_handle
RawArgs == { <<"@", "A", "b">>, <<"a", "b">>, <<"b">>, <<"a", "-">>,
             [i \in 1..(MaxHandleLen + 1) |-> "a"] }
\* fewer of them: a handle to normalise, a plain one, an invalid one
FewArgs == { <<"@", "A", "b">>, <<"b">>, <<"a", "-">> }
\* and for /add_handle alone: more than one '@', and nothing but an '@'
AddArgs == RawArgs \cup { <<"@", "@", "B">>, <<"@">> }
\* a command without arguments
NoArgs == <<>>
\* the handles the arguments above normalise to
Handles == { <<"a", "b">>, <<"b">> }
\* the poster names that pages show
Posters == { <<"a">>, <<"b">> }
\* a timeline item: has it a username link with a <bdi>, and that text
TimelineItems ==
    { [link |-> TRUE, text |-> <<"a">>],
      [link |-> TRUE, text |-> <<"@", "B">>],
      [link |-> FALSE, text |-> <<>>] }

\* A response body: empty text, or a page with or without the literal
\* "Community" in it and with its timeline items in document order.
EmptyBody == [blank |-> TRUE, marker |-> FALSE, items |-> <<>>]
Pages == {[blank |-> FALSE, marker |-> m, items |-> it] :
              m \in BOOLEAN, it \in SeqsUpTo(TimelineItems, MaxItems)}
Bodies == Pages \cup {EmptyBody}

\* What one mirror answers: a RequestException (timeout included), a status
\* other than 200, or 200 with a body.
MirrorError == [kind |-> "exception", body |-> EmptyBody]
MirrorBadStatus == [kind |-> "status", body |-> EmptyBody]
MirrorOk(b) == [kind |-> "ok", body |-> b]

\* _get_nitter_html returns None
NotFound == [kind |-> "none", body |-> EmptyBody]
HtmlOf(b) == [kind |-> "text", body |-> b]


(***************************************************************************)
(* Nitter scraper.                                                         *)
(***************************************************************************)
\* The loop of _get_nitter_html from mirror i on: resp[i] is what mirror i
\* answers.  The result records the mirrors contacted with the value
\* returned.
RECURSIVE FetchFrom(_, _, _)
FetchFrom(resp, i, tried) ==
    IF i > Len(resp) THEN [html |-> NotFound, contacted |-> tried]
    ELSE IF resp[i].kind = "ok"
         THEN [html |-> HtmlOf(resp[i].body), contacted |-> Append(tried, i)]
         ELSE FetchFrom(resp, i + 1, Append(tried, i))

\* the loop without its `return`: every mirror is asked and the last answer
\* with status 200 wins
GetNitterHtmlNoReturn(resp) ==
    LET ok == {i \in 1..Len(resp) : resp[i].kind = "ok"}
        last == CHOOSE i \in ok : \A j \in ok : j <= i
    IN  [html |-> IF ok = {} THEN NotFound ELSE HtmlOf(resp[last].body),
         contacted |-> [i \in 1..Len(resp) |-> i]]

\* lines 111-125
_get_nitter_html(resp) == FetchFrom(resp, 1, <<>>)

\* Python's truth value of the Optional[str]: None and "" are false
Truthy(html) == html.kind = "text" /\ ~html.body.blank

\* "Community" in html
_is_community_page(html) ==
    IF ~Truthy(html) THEN FALSE ELSE html.body.marker

\* find_all('div', class_='timeline-item') without its limit
FirstItemsAll(items, limit) == items

\* find_all('div', class_='timeline-item', limit=limit), for a limit of 1 or
\* more: the first `limit` items in document order
FirstItems(items, limit) ==
    SubSeq(items, 1, IF Len(items) < limit THEN Len(items) ELSE limit)

\* the username of one timeline item: bdi text, lstrip('@')
Username(item) == LStripAt(item.text)

_extract_posters(html, limit) ==
    IF ~Truthy(html) THEN {}
    ELSE LET timeline_items == FirstItems(html.body.items, limit)
         IN  { Lower(Username(timeline_items[i])) :
                 i \in { j \in 1..Len(timeline_items) :
                           /\ timeline_items[j].link
                           /\ Username(timeline_items[j]) # <<>> } }

(***************************************************************************)
(* Bot logic: the alert.                                                   *)
(***************************************************************************)
\* The message of _format_alert, by the data it carries: the handle, the
\* page type, the count and the mentions.
_format_alert(handle, new_posters, is_community) ==
    [ handle    |-> handle,
      page_type |-> IF is_community THEN "Community" ELSE "User",
      count     |-> Cardinality(new_posters),
      mentions  |-> new_posters ]


(***************************************************************************)
(* Data persistence.  subscribers.txt is text; the two JSON files are a    *)
(* document that is whole, or a strict prefix of one (which never parses). *)
(***************************************************************************)
\* str(n) for the chat ids in use
Str(n) == CASE n = 1 -> <<"1">> [] n = 2 -> <<"2">> [] n = 3 -> <<"3">>
            [] OTHER -> <<"-">>

\* "\n".join(lines)
RECURSIVE JoinLines(_)
JoinLines(lines) ==
    IF lines = <<>> THEN <<>>
    ELSE IF Len(lines) = 1 THEN lines[1]
    ELSE lines[1] \o <<"\n">> \o JoinLines(Tail(lines))

\* str.splitlines()
RECURSIVE SplitLines(_, _)
SplitLines(text, line) ==
    IF text = <<>> THEN (IF line = <<>> THEN <<>> ELSE <<line>>)
    ELSE IF Head(text) = "\n" THEN <<line>> \o SplitLines(Tail(text), <<>>)
    ELSE SplitLines(Tail(text), Append(line, Head(text)))

DigitValue(c) == CASE c = "1" -> 1 [] c = "2" -> 2 [] c = "3" -> 3 [] OTHER -> 0

\* int(line): raises ValueError unless every character is a digit
IntParses(line) == line # <<>> /\ \A i \in 1..Len(line) : line[i] \in Digits
RECURSIVE IntOf(_, _)
IntOf(line, acc) ==
    IF line = <<>> THEN acc ELSE IntOf(Tail(line), 10 * acc + DigitValue(Head(line)))

\* The three files.
MissingText == [exists |-> FALSE, text |-> <<>>]
MissingJson == [exists |-> FALSE, whole |-> FALSE, doc |-> <<>>]
BrokenJson == [exists |-> TRUE, whole |-> FALSE, doc |-> <<>>]

\* SUBS_FILE.write_text("\n".join(map(str, sorted(SUBS))))
SubsText(subs) ==
    LET ids == SortedInts(subs)
    IN  JoinLines([i \in 1..Len(ids) |-> Str(ids[i])])
SubsFileOf(subs) == [exists |-> TRUE, text |-> SubsText(subs)]

\* json.dumps(sorted(list(MONITORED_HANDLES)), indent=2)
CommunitiesFileOf(handles) ==
    [exists |-> TRUE, whole |-> TRUE, doc |-> SortedStrings(handles)]

\* json.dumps({k: sorted(list(v)) for k, v in SEEN_POSTERS.items()}, indent=2)
SeenFileOf(seen) ==
    [exists |-> TRUE, whole |-> TRUE,
     doc |-> [k \in DOMAIN seen |-> SortedStrings(seen[k])]]


(***************************************************************************)
(* State.                                                                  *)
(***************************************************************************)
VARIABLES
    alive,              \* is the process running
    killsLeft,          \* how often the process may still be killed
    POSTS_TO_CHECK,     \* the configured limit, read from the environment
    SUBS,               \* Set[int]
    MONITORED_HANDLES,  \* Set[str]
    SEEN_POSTERS,       \* Dict[str, Set[str]]
    files,              \* SUBS_FILE, COMMUNITIES_FILE, SEEN_POSTERS_FILE
    cycles,             \* the runs of check_for_new_posters in progress (a bag)
    notified,           \* history: posters reported per handle since its removal
    lastCheck,          \* what the step just taken checked, if it checked a handle
    lastFanout,         \* the fan-out the step just taken ended, if it ended one
    lastSave,           \* the save the step just taken was killed in, if it was
    lastLoad,           \* the files the step just taken loaded, if it loaded
    lastEnd,            \* the run of the job the step just taken ended, if it ended one
    lastKill,           \* what the process held when the step just taken killed it
    lastCmd,            \* the command the step just taken handled, if it handled one
    fetchIn,            \* the mirrors' answers given to the last stand-alone fetch
    fetchOut            \* and what it returned

vars == << alive, killsLeft, POSTS_TO_CHECK, SUBS, MONITORED_HANDLES, SEEN_POSTERS,
           files, cycles, notified, lastCheck, lastFanout, lastSave, lastLoad,
           lastEnd, lastKill, lastCmd, fetchIn, fetchOut >>

\* {} as a dict
EmptyDict == <<>>

\* SeenStateStore.get: the handle's seen set, empty when it has no entry
Seen(seen, h) == IF h \in DOMAIN seen THEN seen[h] ELSE {}

NoFiles == [subs |-> MissingText, communities |-> MissingJson, seen |-> MissingJson]

\* the observation of a check: the handle, whether a mirror answered 200,
\* whether line 182 skipped the handle, whether the handle had a seen entry
\* and what get(handle) was before, the page type and the posters taken from
\* the page, the posters reported as new and the alerts handed to fan-out
NoCheck ==
    [valid |-> FALSE, handle |-> <<>>, fetched |-> FALSE, skipped |-> FALSE,
     had_entry |-> FALSE, seen_before |-> {}, is_community |-> FALSE,
     current_posters |-> {}, new_posters |-> {}, alerts |-> <<>>]
NoFanout ==
    [valid |-> FALSE, handle |-> <<>>, size |-> 0, attempted |-> {},
     failed |-> FALSE, delivered |-> FALSE, aborted |-> FALSE]
NoSave == [valid |-> FALSE, before |-> NoFiles, intended |-> NoFiles]
NoLoad == [valid |-> FALSE, from |-> NoFiles]
NoFetch == [html |-> NotFound, contacted |-> <<>>]
\* the observation of the end of a run: was it the return of line 173, the
\* list of line 176 and the handles of it that were checked, was line 200
\* reached, did an exception end the run
NoEnd ==
    [valid |-> FALSE, empty |-> FALSE, handles |-> <<>>, checked |-> <<>>,
     saved |-> FALSE, aborted |-> FALSE]
\* the observation of a kill: was the process in _save_data, the handle for
\* which a run had just delivered its alert to a subscriber and gone into the
\* sleep of line 195, the posters reported per handle up to then
NoKill ==
    [valid |-> FALSE, in_save |-> FALSE, delivered |-> {},
     notified |-> [h \in Handles |-> {}]]
\* the observation of an /add_handle: its argument, whether the probe was
\* made and what it returned
NoCmd ==
    [kind |-> "none", args |-> <<>>, probed |-> FALSE, html |-> NotFound]

(***************************************************************************)
(* _load_data: one try block around the three reads.                       *)
(***************************************************************************)
\* the non-empty lines of subscribers.txt
SubsLines(text) ==
    LET lines == SplitLines(text, <<>>)
    IN  { lines[i] : i \in { j \in 1..Len(lines) : lines[j] # <<>> } }

\* What each read gives when it is reached, and whether it raises.
ReadSubs(f) == { IntOf(l, 0) : l \in SubsLines(f.subs.text) }
SubsRaises(f) == f.subs.exists /\ \E l \in SubsLines(f.subs.text) : ~IntParses(l)
ReadCommunities(f) == Range(f.communities.doc)
CommunitiesRaises(f) == f.communities.exists /\ ~f.communities.whole
ReadSeen(f) == [k \in DOMAIN f.seen.doc |-> Range(f.seen.doc[k])]
SeenRaises(f) == f.seen.exists /\ ~f.seen.whole

_load_data(f) ==
    LET none == [subs |-> {}, handles |-> {}, seen |-> EmptyDict]
        s1 == IF f.subs.exists THEN [none EXCEPT !.subs = ReadSubs(f)] ELSE none
        s2 == IF f.communities.exists
              THEN [s1 EXCEPT !.handles = ReadCommunities(f)] ELSE s1
        s3 == IF f.seen.exists THEN [s2 EXCEPT !.seen = ReadSeen(f)] ELSE s2
    IN  IF SubsRaises(f) THEN none
        ELSE IF CommunitiesRaises(f) THEN s1
        ELSE IF SeenRaises(f) THEN s2
        ELSE s3

(***************************************************************************)
(* _save_data: three write_text calls in a row.  write_text truncates the  *)
(* file and then writes it; the process may be killed at any point.        *)
(***************************************************************************)
SaveDone == [kind |-> "done", file |-> 0, cut |-> <<>>]
\* killed while file k is being written (it holds a strict prefix), or after
\* file k was written and before the next one is opened
SaveKills(subs) ==
    { [kind |-> "during", file |-> 1, cut |-> c] : c \in StrictPrefixes(SubsText(subs)) }
    \cup { [kind |-> "during", file |-> k, cut |-> <<>>] : k \in {2, 3} }
    \cup { [kind |-> "after", file |-> k, cut |-> <<>>] : k \in {1, 2} }

_save_data(f, subs, handles, seen, o) ==
    LET written == IF o.kind = "done" THEN 3
                   ELSE IF o.kind = "after" THEN o.file ELSE o.file - 1
        torn == IF o.kind = "during" THEN o.file ELSE 0
    IN  [ subs |->
            IF written >= 1 THEN SubsFileOf(subs)
            ELSE IF torn = 1 THEN [exists |-> TRUE, text |-> o.cut]
            ELSE f.subs,
          communities |->
            IF written >= 2 THEN CommunitiesFileOf(handles)
            ELSE IF torn = 2 THEN BrokenJson
            ELSE f.communities,
          seen |->
            IF written >= 3 THEN SeenFileOf(seen)
            ELSE IF torn = 3 THEN BrokenJson
            ELSE f.seen ]

IntendedFiles(subs, handles, seen) ==
    [subs |-> SubsFileOf(subs), communities |-> CommunitiesFileOf(handles),
     seen |-> SeenFileOf(seen)]

(***************************************************************************)
(* What the mirrors answer to one call of _get_nitter_html.                *)
(***************************************************************************)
AllUp(b) == [i \in 1..NumMirrors |-> MirrorOk(b)]
AllDown == [i \in 1..NumMirrors |-> IF i % 2 = 1 THEN MirrorError ELSE MirrorBadStatus]
\* the first fails, the second answers 404, the third answers, the rest
\* would answer with an empty body
FailOver(b) ==
    [i \in 1..NumMirrors |->
        IF i = 1 THEN MirrorError
        ELSE IF i = 2 THEN MirrorBadStatus
        ELSE IF i = 3 THEN MirrorOk(b) ELSE MirrorOk(EmptyBody)]

\* the pages drawn for the fetch of a check: those whose items are pairwise
\* different (a repeated item adds nothing to the set of posters)
CheckPages ==
    {p \in Pages : \A i, j \in 1..Len(p.items) : p.items[i] = p.items[j] => i = j}
\* the answers drawn for the fetch of a check
CheckResponses == {AllDown, AllUp(EmptyBody)} \cup {FailOver(b) : b \in CheckPages}
\* the answers drawn for the probe of /add_handle
ProbePage == [blank |-> FALSE, marker |-> FALSE, items |-> <<>>]
ProbeResponses == {AllDown, AllUp(EmptyBody), FailOver(ProbePage)}
\* the answers drawn for a stand-alone fetch
FetchBodies == {EmptyBody, ProbePage, [ProbePage EXCEPT !.marker = TRUE]}
FetchResponses ==
    [1..NumMirrors -> {MirrorError, MirrorBadStatus} \cup {MirrorOk(b) : b \in FetchBodies}]

(***************************************************************************)
(* How a step ends: the process goes on, or it was killed.                 *)
(***************************************************************************)
NoObs ==
    [check |-> NoCheck, fanout |-> NoFanout, load |-> NoLoad, ended |-> NoEnd,
     cmd |-> NoCmd]

Step(subs, handles, seen, f, cyc, noti, obs) ==
    /\ alive' = TRUE
    /\ killsLeft' = killsLeft
    /\ SUBS' = subs
    /\ MONITORED_HANDLES' = handles
    /\ SEEN_POSTERS' = seen
    /\ files' = f
    /\ cycles' = cyc
    /\ notified' = noti
    /\ lastCheck' = obs.check
    /\ lastFanout' = obs.fanout
    /\ lastLoad' = obs.load
    /\ lastEnd' = obs.ended
    /\ lastCmd' = obs.cmd
    /\ lastKill' = NoKill
    /\ lastSave' = NoSave
    /\ UNCHANGED << POSTS_TO_CHECK, fetchIn, fetchOut >>

\* The process is gone: the globals and the coroutines go with it.
Killed(f, sav) ==
    /\ alive' = FALSE
    /\ killsLeft' = killsLeft - 1
    /\ SUBS' = {}
    /\ MONITORED_HANDLES' = {}
    /\ SEEN_POSTERS' = EmptyDict
    /\ files' = f
    /\ cycles' = EmptyBag
    /\ notified' = [h \in Handles |-> {}]
    /\ lastCheck' = NoCheck
    /\ lastFanout' = NoFanout
    /\ lastLoad' = NoLoad
    /\ lastEnd' = NoEnd
    /\ lastCmd' = NoCmd
    /\ lastKill' = [valid |-> TRUE, in_save |-> sav.valid,
                    delivered |-> IF /\ lastFanout.valid
                                     /\ lastFanout.delivered
                                     /\ ~lastFanout.aborted
                                  THEN {lastFanout.handle} ELSE {},
                    notified |-> notified]
    /\ lastSave' = sav
    /\ UNCHANGED << POSTS_TO_CHECK, fetchIn, fetchOut >>

\* A step that ends with _save_data(): the save completes, or the process is
\* killed in it.
SaveOutcomes(subs) ==
    {SaveDone} \cup (IF killsLeft > 0 THEN SaveKills(subs) ELSE {})

StepWithSave(subs, handles, seen, cyc, noti, obs) ==
    \E o \in SaveOutcomes(subs) :
        IF o.kind = "done"
        THEN Step(subs, handles, seen, _save_data(files, subs, handles, seen, o),
                  cyc, noti, obs)
        ELSE Killed(_save_data(files, subs, handles, seen, o),
                    [valid |-> TRUE, before |-> files,
                     intended |-> IntendedFiles(subs, handles, seen)])


(***************************************************************************)
(* check_for_new_posters                                                   *)
(***************************************************************************)
\* A run of the job: where it is, the list sorted(list(...)) of line 176 and
\* the handles left of it (the first is the one in hand), and inside
\* _send_alert_to_all the set iterator (the size of SUBS when it was made,
\* the chats it has given) and whether a send_message of this fan-out
\* returned without raising.  The message is the one formatted when the
\* fan-out began; no step reads it again.
NewCycle(handles, todo) ==
    [pc |-> "check", handles |-> handles, todo |-> todo, size |-> 0,
     visited |-> {}, delivered |-> FALSE]

\* the handles of its list that a run has checked, the one in hand included
Checked(c) == SubSeq(c.handles, 1, Len(c.handles) - Len(c.todo) + 1)

\* A coroutine that is running (not suspended at an await) holds the loop.
Busy == \E c \in BagToSet(cycles) : c.pc = "check"

\* The runs in progress are a bag: two runs at the same place with the same
\* handles left are told apart by nothing.  The run c ends, or goes on as d.
Without(c) == cycles (-) SetToBag({c})
Replace(c, d) == Without(c) (+) SetToBag({d})

\* lines 171-176: the timer fires and the job starts.  Nothing in the job or
\* in main() looks for a run in progress; whether the job queue lets a second
\* run start is the library's matter, so the model allows up to maxRuns runs
\* at once (maxRuns = 1: the queue holds a run back while one is going on).
StartCycle(maxRuns) ==
    /\ alive
    /\ ~Busy
    /\ BagCardinality(cycles) < maxRuns
    /\ IF MONITORED_HANDLES = {}
       THEN Step(SUBS, MONITORED_HANDLES, SEEN_POSTERS, files, cycles, notified,
                 [NoObs EXCEPT !.ended = [NoEnd EXCEPT !.valid = TRUE,
                                                       !.empty = TRUE]])
       ELSE LET handles == SortedStrings(MONITORED_HANDLES)
            IN  Step(SUBS, MONITORED_HANDLES, SEEN_POSTERS, files,
                     cycles (+) SetToBag({NewCycle(handles, handles)}),
                     notified, NoObs)

\* lines 178-179 without the `not in` test: the entry is reset on every check
EnsureEntryAlways(seen, handle) ==
    [k \in DOMAIN seen \cup {handle} |-> IF k = handle THEN {} ELSE seen[k]]

\* lines 178-179
EnsureEntry(seen, handle) ==
    IF handle \in DOMAIN seen THEN seen
    ELSE [k \in DOMAIN seen \cup {handle} |-> IF k = handle THEN {} ELSE seen[k]]

\* line 188 with the operands swapped
NewPostersSwapped(current_posters, seen_of_handle) == seen_of_handle \ current_posters

\* line 188 without the difference: every poster on the page counts as new
NewPostersNoDiff(current_posters, seen_of_handle) == current_posters

\* line 188
NewPosters(current_posters, seen_of_handle) == current_posters \ seen_of_handle

\* line 192 left out: the new posters are not recorded
UpdateSeenLost(seen, handle, new_posters) == seen

\* line 192 as an assignment: the new posters replace the seen set
UpdateSeenOverwrite(seen, handle, new_posters) ==
    [seen EXCEPT ![handle] = new_posters]

\* line 192
UpdateSeen(seen, handle, new_posters) ==
    [seen EXCEPT ![handle] = @ \cup new_posters]

\* line 182: `if not html` skips the handle
FetchFailed(html) == ~Truthy(html)

\* The loop goes to the next handle, or ends and saves (lines 176, 199-200).
Advance(c, seen, noti, obs) ==
    IF Len(c.todo) = 1
    THEN StepWithSave(SUBS, MONITORED_HANDLES, seen, Without(c), noti,
                      [obs EXCEPT !.ended =
                          [valid |-> TRUE, empty |-> FALSE, handles |-> c.handles,
                           checked |-> Checked(c), saved |-> TRUE,
                           aborted |-> FALSE]])
    ELSE Step(SUBS, MONITORED_HANDLES, seen, files,
              Replace(c, NewCycle(c.handles, Tail(c.todo))), noti, obs)

\* lines 177-197 for the handle in hand, up to the next await
CheckHandle ==
    /\ alive
    /\ \E c \in BagToSet(cycles), resp \in CheckResponses :
        c.pc = "check" /\
        LET handle == Head(c.todo)
            seen1 == EnsureEntry(SEEN_POSTERS, handle)
            html == _get_nitter_html(resp).html
            skipped == FetchFailed(html)
            is_community == _is_community_page(html)
            current_posters == _extract_posters(html, POSTS_TO_CHECK)
            new_posters == NewPosters(current_posters, seen1[handle])
            alerting == ~skipped /\ new_posters # {}
            seen2 == IF alerting THEN UpdateSeen(seen1, handle, new_posters) ELSE seen1
            alert_message == _format_alert(handle, new_posters, is_community)
            noti == IF alerting
                    THEN [notified EXCEPT ![handle] = @ \cup new_posters]
                    ELSE notified
            chk == [valid |-> TRUE, handle |-> handle,
                    fetched |-> html.kind = "text", skipped |-> skipped,
                    had_entry |-> handle \in DOMAIN SEEN_POSTERS,
                    seen_before |-> Seen(SEEN_POSTERS, handle),
                    is_community |-> is_community,
                    current_posters |-> current_posters,
                    new_posters |-> IF skipped THEN {} ELSE new_posters,
                    alerts |-> IF alerting THEN <<alert_message>> ELSE <<>>]
        IN  IF ~alerting
            THEN Advance(c, seen2, noti, [NoObs EXCEPT !.check = chk])
            ELSE IF SUBS = {}
            \* _send_alert_to_all returns at once; the job sleeps
            THEN Step(SUBS, MONITORED_HANDLES, seen2, files,
                      Replace(c, [c EXCEPT !.pc = "sleep"]), noti,
                      [NoObs EXCEPT !.check = chk,
                                    !.fanout = [NoFanout EXCEPT !.valid = TRUE,
                                                                !.handle = handle]])
            \* the iterator gives a first chat; the job awaits send_message
            ELSE \E chat \in SUBS :
                   Step(SUBS, MONITORED_HANDLES, seen2, files,
                        Replace(c, [c EXCEPT !.pc = "send",
                                             !.size = Cardinality(SUBS),
                                             !.visited = {chat}]),
                        noti, [NoObs EXCEPT !.check = chk])

\* lines 163-167: send_message returns or raises (caught and logged), and the
\* for loop asks the set iterator for the next chat.  The iterator raises
\* RuntimeError when the set changed size since it was made; nothing in the
\* job catches it, so the run ends there.
SendReturns ==
    /\ alive
    /\ ~Busy
    /\ \E c \in BagToSet(cycles), ok \in BOOLEAN :
        c.pc = "send" /\
        LET failed == ~ok
            delivered == c.delivered \/ ok
            fan(aborted) == [NoObs EXCEPT !.fanout =
                               [valid |-> TRUE, handle |-> Head(c.todo),
                                size |-> c.size,
                                attempted |-> c.visited, failed |-> failed,
                                delivered |-> delivered, aborted |-> aborted]]
        IN  IF Cardinality(SUBS) # c.size
            THEN Step(SUBS, MONITORED_HANDLES, SEEN_POSTERS, files,
                      Without(c), notified,
                      [fan(TRUE) EXCEPT !.ended =
                          [valid |-> TRUE, empty |-> FALSE, handles |-> c.handles,
                           checked |-> Checked(c), saved |-> FALSE,
                           aborted |-> TRUE]])
            ELSE IF SUBS \ c.visited = {}
            THEN Step(SUBS, MONITORED_HANDLES, SEEN_POSTERS, files,
                      Replace(c, [NewCycle(c.handles, c.todo) EXCEPT !.pc = "sleep"]),
                      notified, fan(FALSE))
            ELSE \E chat \in SUBS \ c.visited :
                   Step(SUBS, MONITORED_HANDLES, SEEN_POSTERS, files,
                        Replace(c, [c EXCEPT !.visited = @ \cup {chat},
                                             !.delivered = delivered]),
                        notified, NoObs)

\* line 195: asyncio.sleep(1) returns
SleepReturns ==
    /\ alive
    /\ ~Busy
    /\ \E c \in BagToSet(cycles) :
        /\ c.pc = "sleep"
        /\ Advance(c, SEEN_POSTERS, notified, NoObs)

(***************************************************************************)
(* Telegram bot commands.  Each changes the globals and saves before its   *)
(* only await, the reply.                                                  *)
(***************************************************************************)
\* A command that replies without changing anything.
Unchanged(cmd) ==
    Step(SUBS, MONITORED_HANDLES, SEEN_POSTERS, files, cycles, notified,
         [NoObs EXCEPT !.cmd = cmd])

\* context.args[0].lstrip('@'): the argument is not lowercased
NormalizeArgNoLower(arg) == LStripAt(arg)

\* context.args[0].lower().lstrip('@')
NormalizeArg(arg) == LStripAt(Lower(arg))

\* lines 205-210, for a /start from one of `chats`
cmd_start(chats) ==
    /\ alive
    /\ ~Busy
    /\ \E chat_id \in chats :
        StepWithSave(SUBS \cup {chat_id}, MONITORED_HANDLES, SEEN_POSTERS,
                     cycles, notified, NoObs)

\* lines 212-229, for an /add_handle with one of `inputs` (or nothing); when
\* `noted`, the step leaves its argument and its probe in lastCmd
cmd_add_handle(inputs, noted) ==
    /\ alive
    /\ ~Busy
    /\ \E args \in inputs \cup {NoArgs} :
        LET cmd == IF noted
                   THEN [NoCmd EXCEPT !.kind = "add_handle", !.args = args]
                   ELSE NoCmd
        IN  IF args = NoArgs THEN Unchanged(cmd)
            ELSE LET handle == NormalizeArg(args)
                 IN  IF ~MatchesHandle(handle) THEN Unchanged(cmd)
                     ELSE IF handle \in MONITORED_HANDLES THEN Unchanged(cmd)
                     ELSE \E resp \in ProbeResponses :
                            LET html == _get_nitter_html(resp).html
                                probe == IF noted
                                         THEN [cmd EXCEPT !.probed = TRUE,
                                                          !.html = html]
                                         ELSE NoCmd
                            IN  IF ~Truthy(html) THEN Unchanged(probe)
                                ELSE StepWithSave(SUBS,
                                                  MONITORED_HANDLES \cup {handle},
                                                  SEEN_POSTERS, cycles, notified,
                                                  [NoObs EXCEPT !.cmd = probe])

\* lines 239-241: the handle's seen entry is deleted
RemoveHandle(seen, handle) == [k \in DOMAIN seen \ {handle} |-> seen[k]]

\* lines 231-243, for a /remove_handle with one of `inputs` (or nothing)
cmd_remove_handle(inputs) ==
    /\ alive
    /\ ~Busy
    /\ \E args \in inputs \cup {NoArgs} :
        IF args = NoArgs THEN Unchanged(NoCmd)
        ELSE LET handle == NormalizeArg(args)
             IN  IF handle \notin MONITORED_HANDLES THEN Unchanged(NoCmd)
                 ELSE StepWithSave(SUBS, MONITORED_HANDLES \ {handle},
                                   RemoveHandle(SEEN_POSTERS, handle), cycles,
                                   [notified EXCEPT ![handle] = {}], NoObs)

(***************************************************************************)
(* The process: main() starts it, and it may be killed at any time.        *)
(***************************************************************************)
\* lines 286-291 (the job is registered at lines 307-312)
main ==
    /\ ~alive
    /\ LET d == _load_data(files)
           obs == [NoObs EXCEPT !.load = [valid |-> TRUE, from |-> files]]
       IN  IF DEFAULT_CHAT_ID > 0 /\ DEFAULT_CHAT_ID \notin d.subs
           THEN StepWithSave(d.subs \cup {DEFAULT_CHAT_ID}, d.handles, d.seen,
                             EmptyBag, notified, obs)
           ELSE Step(d.subs, d.handles, d.seen, files, EmptyBag, notified, obs)

Kill ==
    /\ alive
    /\ killsLeft > 0
    /\ Killed(files, NoSave)

(***************************************************************************)
(* The bot while it runs: commands and up to MaxCycles runs of the job in   *)
(* progress, no kill.                                                      *)
(***************************************************************************)
InitWith(limit, kills) ==
    /\ alive = FALSE
    /\ killsLeft = kills
    /\ POSTS_TO_CHECK = limit
    /\ SUBS = {}
    /\ MONITORED_HANDLES = {}
    /\ SEEN_POSTERS = EmptyDict
    /\ files = NoFiles
    /\ cycles = EmptyBag
    /\ notified = [h \in Handles |-> {}]
    /\ lastCheck = NoCheck
    /\ lastFanout = NoFanout
    /\ lastSave = NoSave
    /\ lastLoad = NoLoad
    /\ lastEnd = NoEnd
    /\ lastKill = NoKill
    /\ lastCmd = NoCmd
    /\ fetchIn = AllDown
    /\ fetchOut = NoFetch

Init == InitWith(MaxItems, 0)

Next ==
    \/ main
    \/ StartCycle(MaxCycles)
    \/ CheckHandle
    \/ SendReturns
    \/ SleepReturns
    \/ cmd_start(TwoChats)
    \/ cmd_add_handle(FewArgs, FALSE)
    \/ cmd_remove_handle(FewArgs)

Spec == Init /\ [][Next]_vars

(***************************************************************************)
(* _get_nitter_html alone, called on every combination of answers.         *)
(***************************************************************************)
FetchOnce ==
    /\ \E resp \in FetchResponses :
        /\ fetchIn' = resp
        /\ fetchOut' = _get_nitter_html(resp)
    /\ UNCHANGED << alive, killsLeft, POSTS_TO_CHECK, SUBS, MONITORED_HANDLES,
                    SEEN_POSTERS, files, cycles, notified, lastCheck, lastFanout,
                    lastSave, lastLoad, lastEnd, lastKill, lastCmd >>

SpecFetch == Init /\ [][FetchOnce]_vars


(***************************************************************************)
(* The bot with its disk: the process may be killed, in a save or between  *)
(* two steps, and started again.  One run of the job at a time.            *)
(***************************************************************************)
InitCrash == InitWith(MaxItems, MaxCrashes)

NextCrash ==
    \/ main
    \/ Kill
    \/ StartCycle(1)
    \/ CheckHandle
    \/ SendReturns
    \/ SleepReturns
    \/ cmd_start(TwoChats)
    \/ cmd_add_handle(FewArgs, FALSE)
    \/ cmd_remove_handle(FewArgs)

SpecCrash == InitCrash /\ [][NextCrash]_vars

(***************************************************************************)
(* The bot with three chats that may subscribe, one run of the job at a    *)
(* time, no kill.                                                          *)
(***************************************************************************)
NextFanout ==
    \/ main
    \/ StartCycle(1)
    \/ CheckHandle
    \/ SendReturns
    \/ SleepReturns
    \/ cmd_start(ChatIds)
    \/ cmd_add_handle(RawArgs, FALSE)
    \/ cmd_remove_handle(RawArgs)

SpecFanout == Init /\ [][NextFanout]_vars

(***************************************************************************)
(* The bot with one chat and every kind of argument to /add_handle, whose  *)
(* steps leave what they were given and what the probe returned; one run   *)
(* of the job at a time, no kill.                                          *)
(***************************************************************************)
NextAdd ==
    \/ main
    \/ StartCycle(1)
    \/ CheckHandle
    \/ SendReturns
    \/ SleepReturns
    \/ cmd_start({1})
    \/ cmd_add_handle(AddArgs, TRUE)
    \/ cmd_remove_handle(FewArgs)

SpecAdd == Init /\ [][NextAdd]_vars

(***************************************************************************)
(* The bot with POSTS_TO_CHECK set to 1 or more, up to the number of items *)
(* a page may show, so that a page can hold more items than are looked     *)
(* at; one chat, one run of the job at a time, no kill.                    *)
(***************************************************************************)
InitCap == \E limit \in 1..MaxItems : InitWith(limit, 0)

NextCap ==
    \/ main
    \/ StartCycle(1)
    \/ CheckHandle
    \/ SendReturns
    \/ SleepReturns
    \/ cmd_start({1})
    \/ cmd_add_handle(FewArgs, FALSE)
    \/ cmd_remove_handle(FewArgs)

SpecCap == InitCap /\ [][NextCap]_vars


(***************************************************************************)
(* The claims.                                                             *)
(***************************************************************************)
PageType(is_community) == IF is_community THEN "Community" ELSE "User"

\* C1: when the step just taken checked handle h and a mirror answered, with
\* P the posters on the page and S = seen(h) before: the posters reported as
\* new are P \ S; if P \ S is not empty, seen(h) is now S \cup P, exactly one
\* alert was handed to fan-out, for h, listing P \ S and tagged with the
\* classified page type, and the run is inside or just past that fan-out; if
\* P \ S is empty, no alert was handed over and seen(h) is as before.
C1_DiffUpdateAlert ==
    (lastCheck.valid /\ lastCheck.fetched) =>
        LET h == lastCheck.handle
            P == lastCheck.current_posters
            S == lastCheck.seen_before
        IN  /\ lastCheck.new_posters = P \ S
            /\ P \ S # {} =>
                 /\ Seen(SEEN_POSTERS, h) = S \cup P
                 /\ lastCheck.alerts =
                        << [handle |-> h,
                            page_type |-> PageType(lastCheck.is_community),
                            count |-> Cardinality(P \ S),
                            mentions |-> P \ S] >>
                 /\ \E c \in BagToSet(cycles) :
                        /\ c.pc \in {"send", "sleep"}
                        /\ Head(c.todo) = h
            /\ P \ S = {} =>
                 /\ lastCheck.alerts = <<>>
                 /\ Seen(SEEN_POSTERS, h) = S
                 /\ ~lastFanout.valid

\* C1 witness: a check of a handle with a non-empty seen set found a page
\* showing a seen poster and an unseen one, and reported the unseen one.
C1_Witness ==
    /\ lastCheck.valid
    /\ lastCheck.fetched
    /\ lastCheck.seen_before # {}
    /\ lastCheck.current_posters \cap lastCheck.seen_before # {}
    /\ lastCheck.new_posters # {}
    /\ Len(lastCheck.alerts) = 1


\* C2: no re-notification.  A step that checks handle h reports no poster
\* that was reported for h before in this process, unless h was removed in
\* between (notified[h] is the posters reported for h since its last
\* removal; a check step removes nothing).
C2_NoRenotification ==
    [][ lastCheck'.valid =>
            lastCheck'.new_posters \cap notified[lastCheck'.handle] = {} ]_vars

\* C2 witness: a page showed only posters already reported for the handle,
\* and the check reported none.
C2_Witness ==
    /\ lastCheck.valid
    /\ lastCheck.fetched
    /\ lastCheck.current_posters # {}
    /\ lastCheck.current_posters \subseteq notified[lastCheck.handle]
    /\ lastCheck.new_posters = {}
    /\ BagCardinality(cycles) = MaxCycles

\* the number of runs suspended in a send_message
Sending(cyc) ==
    LET sending == {c \in BagToSet(cyc) : c.pc = "send"}
    IN  BagCardinality([c \in sending |-> cyc[c]])

\* C4: when the step just taken checked handle h and every mirror failed, no
\* alert was handed over and no send began, no poster was reported, seen(h)
\* is what it was (no poster was marked seen), and h is as monitored as it
\* was, so that the next run checks it again against the same seen set.
C4_FetchFailureChangesNothing ==
    [][ (lastCheck'.valid /\ ~lastCheck'.fetched) =>
            /\ lastCheck'.alerts = <<>>
            /\ lastCheck'.new_posters = {}
            /\ ~lastFanout'.valid
            /\ \A h \in Handles :
                  Seen(SEEN_POSTERS', h) = Seen(SEEN_POSTERS, h)
            /\ notified' = notified
            /\ MONITORED_HANDLES' = MONITORED_HANDLES
            /\ Sending(cycles') = Sending(cycles) ]_vars

\* C4 witness: every mirror failed in the check of a monitored handle whose
\* seen set holds posters, and a run of the job is still going on.
C4_Witness ==
    /\ lastCheck.valid
    /\ ~lastCheck.fetched
    /\ lastCheck.seen_before # {}
    /\ lastCheck.handle \in MONITORED_HANDLES
    /\ Seen(SEEN_POSTERS, lastCheck.handle) = lastCheck.seen_before
    /\ BagCardinality(cycles) > 0

\* C9: a handle that was removed and not added again has an empty seen set:
\* get(h) is empty for every handle outside the monitored set, whatever the
\* run of the job was doing when the handle was removed.
C9_RemovedHandleForgotten ==
    \A h \in Handles :
        h \notin MONITORED_HANDLES => Seen(SEEN_POSTERS, h) = {}

\* C10: when the step just taken checked a handle that had no seen entry and
\* a mirror answered with posters P on the page, exactly P was reported as
\* new and seen(h) is now P.
C10_FirstRunReportsAll ==
    (lastCheck.valid /\ lastCheck.fetched /\ ~lastCheck.had_entry) =>
        /\ lastCheck.new_posters = lastCheck.current_posters
        /\ Seen(SEEN_POSTERS, lastCheck.handle) = lastCheck.current_posters
        /\ lastCheck.current_posters # {} =>
              /\ Len(lastCheck.alerts) = 1
              /\ lastCheck.alerts[1].mentions = lastCheck.current_posters

\* C10 witness: the first check of a handle without a seen entry found two
\* posters on the page and reported both.
C10_Witness ==
    /\ lastCheck.valid
    /\ lastCheck.fetched
    /\ ~lastCheck.had_entry
    /\ Cardinality(lastCheck.current_posters) = 2
    /\ lastCheck.new_posters = lastCheck.current_posters
    /\ Seen(SEEN_POSTERS, lastCheck.handle) = lastCheck.current_posters


\* C5: mirror failover.  After a fetch: the mirrors contacted are the first
\* ones of the list, in list order, up to and including the first that
\* answered 200 (all of them when none did); the value returned is the body
\* of that first mirror; and the value is NotFound exactly when every mirror
\* failed.
C5_MirrorFailover ==
    fetchOut.contacted # <<>> =>
        LET ok == {i \in 1..NumMirrors : fetchIn[i].kind = "ok"}
            first == CHOOSE i \in ok : \A j \in ok : i <= j
            asked == IF ok = {} THEN NumMirrors ELSE first
        IN  /\ fetchOut.contacted = [i \in 1..asked |-> i]
            /\ ok # {} => fetchOut.html = HtmlOf(fetchIn[first].body)
            /\ (fetchOut.html = NotFound) <=> (ok = {})

\* C5 witness: the first mirror raised, the second answered 404, the third
\* answered 200 and its body was returned, though the fourth would have
\* answered 200 with another body.
C5_Witness ==
    /\ fetchIn[1].kind = "exception"
    /\ fetchIn[2].kind = "status"
    /\ fetchIn[3].kind = "ok"
    /\ fetchIn[4].kind = "ok"
    /\ fetchIn[4].body # fetchIn[3].body
    /\ fetchOut.html = HtmlOf(fetchIn[3].body)
    /\ fetchOut.contacted = <<1, 2, 3>>

\* C6: when a fan-out has ended, a delivery was attempted to every subscriber
\* of the set it went through.
C6_EverySubscriberAttempted ==
    lastFanout.valid => Cardinality(lastFanout.attempted) = lastFanout.size

\* What a load would take from each file: whether the file can be read (a
\* missing file reads as the empty value) and the value read.
SubsContent(f) ==
    IF ~f.subs.exists THEN [readable |-> TRUE, value |-> {}]
    ELSE IF SubsRaises(f) THEN [readable |-> FALSE, value |-> {}]
    ELSE [readable |-> TRUE, value |-> ReadSubs(f)]
CommunitiesContent(f) ==
    IF ~f.communities.exists THEN [readable |-> TRUE, value |-> {}]
    ELSE IF CommunitiesRaises(f) THEN [readable |-> FALSE, value |-> {}]
    ELSE [readable |-> TRUE, value |-> ReadCommunities(f)]
SeenContent(f) ==
    IF ~f.seen.exists THEN [readable |-> TRUE, value |-> EmptyDict]
    ELSE IF SeenRaises(f) THEN [readable |-> FALSE, value |-> EmptyDict]
    ELSE [readable |-> TRUE, value |-> ReadSeen(f)]

\* C7: when the process was killed in a save, each of the three records on
\* disk reads as what it held before the save or as what the save was
\* writing, never as something cut short.
C7_CrashSafeSave ==
    lastSave.valid =>
        /\ SubsContent(files) \in
              {SubsContent(lastSave.before), SubsContent(lastSave.intended)}
        /\ CommunitiesContent(files) \in
              {CommunitiesContent(lastSave.before),
               CommunitiesContent(lastSave.intended)}
        /\ SeenContent(files) \in
              {SeenContent(lastSave.before), SeenContent(lastSave.intended)}

\* C8: after main() has loaded the files, each global holds what its own
\* record holds when that record is there and can be read, and the empty
\* value otherwise, whatever the state of the other two records (the seen
\* sets compared handle by handle, as get(h)).
C8_IndependentLoad ==
    lastLoad.valid =>
        LET f == lastLoad.from
        IN  /\ SUBS = SubsContent(f).value
            /\ MONITORED_HANDLES = CommunitiesContent(f).value
            /\ \A h \in Handles :
                  Seen(SEEN_POSTERS, h) = Seen(SeenContent(f).value, h)


\* is a list of handles in ascending order, no handle twice
Ascending(handles) ==
    \A i, j \in 1..Len(handles) : i < j => StrLess(handles[i], handles[j])

\* C11: when the step just taken ended a run of the job: a run started with
\* an empty monitored set checked and fetched nothing and saved nothing; any
\* other run went through a list of handles in ascending order, checked every
\* handle of that list, and saved once after the last, so that the files now
\* hold the globals.
C11_CycleShape ==
    lastEnd.valid =>
        IF lastEnd.empty
        THEN /\ ~lastEnd.saved
             /\ lastEnd.checked = <<>>
             /\ ~lastCheck.valid
        ELSE /\ lastEnd.handles # <<>>
             /\ Ascending(lastEnd.handles)
             /\ lastEnd.checked = lastEnd.handles
             /\ lastEnd.saved
             /\ files = IntendedFiles(SUBS, MONITORED_HANDLES, SEEN_POSTERS)

\* C12: no run of the job is ended by an exception.  The step that ends a
\* run ends it after the last handle of its list, with the save; a check
\* whose fetch failed is followed by the next handle or by the save; a
\* fan-out whose last send_message failed ends with the run still going.
C12_NeverAborted ==
    /\ lastEnd.valid =>
          /\ ~lastEnd.aborted
          /\ ~lastEnd.empty =>
                /\ Len(lastEnd.checked) = Len(lastEnd.handles)
                /\ lastEnd.saved
    /\ (lastCheck.valid /\ lastCheck.skipped) =>
          \/ Busy
          \/ lastEnd.valid /\ lastEnd.saved
    /\ (lastFanout.valid /\ lastFanout.failed) =>
          /\ ~lastFanout.aborted
          /\ ~lastEnd.valid

\* C13: seen-set monotonicity.  In every step of the running bot (a step of
\* a run of the job or a command) and for every handle h: unless the step
\* removes h from the monitored set, seen(h) after the step contains seen(h)
\* before it; and the step that removes h leaves no entry for h.
C13_SeenMonotonic ==
    [][ \A h \in Handles :
          LET removed == h \in MONITORED_HANDLES /\ h \notin MONITORED_HANDLES'
          IN  /\ ~removed => Seen(SEEN_POSTERS, h) \subseteq Seen(SEEN_POSTERS', h)
              /\ removed => h \notin DOMAIN SEEN_POSTERS' ]_vars

\* C13 witness: a check added a poster to a seen set that already held one,
\* while the other handle's seen set held posters too.
C13_Witness ==
    /\ lastCheck.valid
    /\ lastCheck.seen_before # {}
    /\ lastCheck.new_posters # {}
    /\ Seen(SEEN_POSTERS, lastCheck.handle) =
          lastCheck.seen_before \cup lastCheck.new_posters
    /\ \E h \in Handles \ {lastCheck.handle} : Seen(SEEN_POSTERS, h) # {}

\* C14: when the process was stopped while a run of the job was in the sleep
\* that follows the fan-out for handle h, the alert delivered to a
\* subscriber: every poster reported for h before the stop is in h's seen set
\* on disk, which is what a restart loads, so that the restarted process does
\* not report it again.
C14_IdempotentRestart ==
    (lastKill.valid /\ ~lastKill.in_save) =>
        \A h \in lastKill.delivered :
            lastKill.notified[h] \subseteq Seen(SeenContent(files).value, h)


\* a normalized handle, written out: 1 to 15 characters, each a lowercase
\* letter, a digit or '_' (so none is '@')
IsNormalized(h) ==
    /\ Len(h) \in 1..15
    /\ \A i \in 1..Len(h) : h[i] \in LowerLetters \cup Digits \cup {"_"}

\* C15: /add_handle puts a handle in the monitored set only if the argument,
\* lowercased and without its leading '@'s, matches the handle format, is
\* not monitored yet, and the probe fetched a page, and then it adds that
\* normalized handle and nothing else; when there is no argument, the format
\* is wrong, the handle is monitored already or the probe found nothing,
\* the monitored set, the seen sets and the three files stay as they were.
\* So every monitored handle is normalized.
C15_AddHandleValidated ==
    /\ [](\A h \in MONITORED_HANDLES : IsNormalized(h))
    /\ [][ lastCmd'.kind = "add_handle" =>
             LET args == lastCmd'.args
                 handle == NormalizeArg(args)
                 valid == args # NoArgs /\ MatchesHandle(handle)
                 fresh == handle \notin MONITORED_HANDLES
                 found == lastCmd'.probed /\ lastCmd'.html # NotFound
             IN  /\ MONITORED_HANDLES' # MONITORED_HANDLES =>
                        /\ valid /\ fresh /\ found
                        /\ MONITORED_HANDLES' = MONITORED_HANDLES \cup {handle}
                 /\ (~valid \/ ~fresh \/ ~found) =>
                        /\ MONITORED_HANDLES' = MONITORED_HANDLES
                        /\ SEEN_POSTERS' = SEEN_POSTERS
                        /\ files' = files ]_vars

\* "/add_handle @Ab" was accepted after a probe that found a page, next to
\* a handle that was monitored before, and communities.json lists both
C15_Witness ==
    /\ lastCmd.kind = "add_handle"
    /\ lastCmd.args = <<"@", "A", "b">>
    /\ lastCmd.probed
    /\ Truthy(lastCmd.html)
    /\ MONITORED_HANDLES = { <<"a", "b">>, <<"b">> }
    /\ CommunitiesContent(files).value = MONITORED_HANDLES


\* C16: when the fan-out of an alert is over, the alert has reached a
\* subscriber: some send_message of it returned without raising.  (The
\* posters the alert lists were added to the handle's seen set at line 192,
\* before the fan-out began, and nothing takes them out again.)
C16_SeenOnlyNotified ==
    lastFanout.valid => lastFanout.delivered


\* C17: a run of the job fetches (and so alerts for, and makes a seen entry
\* for) only handles that are monitored when it comes to them, also when
\* /remove_handle ran while the run was suspended; and when a run has ended
\* with its save, every key of the seen mapping is a monitored handle.
C17_SeenKeysMonitored ==
    /\ lastCheck.valid => lastCheck.handle \in MONITORED_HANDLES
    /\ (lastEnd.valid /\ lastEnd.saved) =>
           DOMAIN SEEN_POSTERS \subseteq MONITORED_HANDLES


\* C18: a fan-out always comes to its end in _send_alert_to_all, also when
\* a chat subscribed while it was suspended in send_message: the loop over
\* SUBS is not cut off by an exception, and it has handed to send_message
\* at least as many chats as SUBS held when it began, so that the run goes
\* on to its sleep, its remaining handles and its save.
C18_SubscribeDuringFanout ==
    lastFanout.valid =>
        /\ ~lastFanout.aborted
        /\ Cardinality(lastFanout.attempted) >= lastFanout.size
        /\ \E c \in BagToSet(cycles) :
               c.pc = "sleep" /\ Head(c.todo) = lastFanout.handle


\* C19: a check adds at most POSTS_TO_CHECK posters to any handle's seen
\* set and its alert lists at most POSTS_TO_CHECK posters; a run of the job
\* checks no handle twice (its list has no handle twice), so this is the
\* most one run adds to one handle.
C19_PerCycleCap ==
    /\ [](\A c \in BagToSet(cycles) :
             \A i, j \in 1..Len(c.handles) : c.handles[i] = c.handles[j] => i = j)
    /\ [][ lastCheck'.valid =>
             /\ \A h \in Handles :
                    Cardinality(Seen(SEEN_POSTERS', h))
                      - Cardinality(Seen(SEEN_POSTERS, h)) <= POSTS_TO_CHECK
             /\ \A i \in 1..Len(lastCheck'.alerts) :
                    /\ lastCheck'.alerts[i].count <= POSTS_TO_CHECK
                    /\ Cardinality(lastCheck'.alerts[i].mentions) <= POSTS_TO_CHECK ]_vars

\* with POSTS_TO_CHECK = 1, a check has just reported one poster in its
\* alert and added it to a seen set that held another poster already
C19_Witness ==
    /\ POSTS_TO_CHECK = 1
    /\ lastCheck.valid
    /\ Cardinality(lastCheck.seen_before) = 1
    /\ Cardinality(lastCheck.new_posters) = 1
    /\ Len(lastCheck.alerts) = 1
    /\ lastCheck.alerts[1].count = 1
    /\ Cardinality(Seen(SEEN_POSTERS, lastCheck.handle)) = 2

=============================================================================
